---- MODULE Spec2Model ----
(***************************************************************************)
(* DEM-assisted low-resolution disparity (DEMDisparity.cc): the view       *)
(* DemDisparity, its prerasterize, and the pass produce_dem_disparity.     *)
(*                                                                         *)
(* Geometry of the scene.  A left ray is named by the raw left camera      *)
(* pixel it leaves from; a 3D point is a pair [ray, t], t the distance     *)
(* along the ray, so that xyz + bias*dem_error*left_camera_vec is          *)
(* [ray, t + bias*dem_error].  The point [ray, t] is at height CamH - t    *)
(* above the DEM pixel <<DemX0 + ray.x + DemStep*t, DemY0 + ray.y>>.       *)
(* Low-resolution quantities that are fractions are kept in units of       *)
(* 1/SubFactor pixel.                                                      *)
(***************************************************************************)
EXTENDS Integers, Sequences, FiniteSets, TLC

\* ---------------------------------------------------------------- bounds
ImgCols == 3
ImgRows == 2
SubFactor == 2
MaxSample == 2
MaxDemError == 2
CamH == 5
GroundH == 1
BumpH == 3
DemStep == 60
DemX0 == 4
DemY0 == 2
DemCols == 400
DemRows == 12
NumThreads == 2
TileSize == 2
MaxTile == 2
MaxCoord == 2
MaxPrecision == 2
DesiredPrecision == 1
MaxCalls == 3
MaxFileLen == 4
NumCoeffs == 2
MaxCoeff == 2
MaxLoad == 3
MaxTotal == 4
RandMax == 2
MaxImages == 3
MaxPts == 2
MaxPos == 1

\* ------------------------------------------------------- program constants
DemBoxExpand == 100
DiagDivisor == 10

\* ------------------------------------------------------------------ state
VARIABLES
  m_pixel_sample,   \* DemDisparity::m_pixel_sample
  m_dem_error,      \* DemDisparity::m_dem_error, in units of t
  left_bad,         \* where the left transform / left camera throws
  bump_cols,        \* low-res columns whose rays meet the ridge of height BumpH
  hole_cols,        \* low-res columns whose ground pixel is no-data
  right_cam,        \* the right camera: [a, b, tmin, tmax]
  empty_crop_throws,\* what this build does when the DEM box stays empty
  disp_spread,      \* the in-memory spread raster (m_disp_spread)
  ret,              \* the last prerasterize call: bbox, outcome, block
  session_name,     \* produce_dem_disparity's session_name
  tx_kind,          \* dynamic type of the caller's tx_left and tx_right
  m_tx,             \* the transform objects the view holds (m_tx_left, m_tx_right)
  pc,               \* position of produce_dem_disparity
  writer,           \* which writer evaluates the disparity view
  todo,             \* tiles of the disparity image not yet handed out
  worker,           \* per thread: the tile computation in progress
  dem_file,         \* stereo_settings().disparity_estimation_dem
  dem_error,        \* stereo_settings().disparity_estimation_dem_error
  has_georef,       \* what read_georeference finds in the DEM file
  raster_tile_size, \* opt.raster_tile_size
  orig_tile_size,   \* produce_dem_disparity's orig_tile_size
  files,            \* the output files a writer has been opened on
  written,          \* per cell: how many tile computations of the pass wrote it
  m_csm_model,      \* CsmModel::m_csm_model: is a sensor model loaded
  csm_ret,          \* the last CsmModel::point_to_pixel call
  csm_init_mutex,   \* the thread that holds csm_init_mutex, 0 when free
  plugins,          \* csm::Plugin::getList()
  lib_loads,        \* how often the plugin library was loaded in the process
  init_pc,          \* per thread: its position in initialize_plugins
  init_calls,       \* per thread: the calls of initialize_plugins it has made
  plugin_exists,    \* does libusgscsm exist in the plugin folder
  st_file,          \* the characters of the file given to load_model
  st_ret,           \* the last CsmModel::load_model call
  rpc_C,            \* the packed coefficient vector C
  rpc_vecs,         \* lineNum, lineDen, sampNum, sampDen
  rpc_ret,          \* the last packCoeffs / unpackCoeffs call
  las_loader,       \* the members of a LasLoader and the data matrix
  las_ret,          \* the last processOne call
  m_matches,        \* MatchList::m_matches
  m_valid_matches,  \* MatchList::m_valid_matches
  ml_ret            \* the last MatchList call and the match files it wrote

cfgVars == <<dem_file, dem_error, has_georef>>
csmVars == <<m_csm_model, csm_ret>>
plugVars == <<csm_init_mutex, plugins, lib_loads, init_pc, init_calls, plugin_exists>>
stVars == <<st_file, st_ret>>
rpcVars == <<rpc_C, rpc_vecs, rpc_ret>>
lasVars == <<las_loader, las_ret>>
mlVars == <<m_matches, m_valid_matches, ml_ret>>
toolVars == <<plugVars, stVars, rpcVars, lasVars, mlVars>>

vars == <<m_pixel_sample, m_dem_error, left_bad, bump_cols, hole_cols, right_cam,
          empty_crop_throws,
          disp_spread, ret, session_name, tx_kind, m_tx, pc, writer, todo, worker,
          cfgVars, raster_tile_size, orig_tile_size, files, written, csmVars, toolVars>>

sceneVars == <<m_pixel_sample, m_dem_error, left_bad, bump_cols, hole_cols, right_cam,
               empty_crop_throws>>
passVars == <<session_name, tx_kind, m_tx, pc, writer, todo, worker,
              cfgVars, raster_tile_size, orig_tile_size, files, written>>

demVars == <<sceneVars, disp_spread, ret, passVars>>

\* ------------------------------------------------------------- arithmetic
Max(a, b) == IF a >= b THEN a ELSE b
Min(a, b) == IF a <= b THEN a ELSE b
Abs(a) == IF a >= 0 THEN a ELSE -a

\* C++ integer division and remainder (truncation towards zero)
CDiv(a, b) == IF a >= 0 THEN a \div b ELSE -((-a) \div b)
CMod(a, b) == a - b * CDiv(a, b)

\* round(n/d), halves away from zero; ceil(n/d); d > 0
RoundDiv(n, d) == IF n >= 0 THEN (2 * n + d) \div (2 * d)
                            ELSE -((2 * (-n) + d) \div (2 * d))
CeilDiv(n, d) == -((-n) \div d)

\* ------------------------------------------------------------------ boxes
\* BBox2i: max is exclusive; the default box is empty
Box(x0, y0, x1, y1) == [minx |-> x0, miny |-> y0, maxx |-> x1, maxy |-> y1]
EmptyBox == [empty |-> TRUE]
IsEmptyBox(b) == "empty" \in DOMAIN b
Width(b) == b.maxx - b.minx
Height(b) == b.maxy - b.miny
InBox(b, p) == /\ ~IsEmptyBox(b)
               /\ b.minx <= p[1] /\ p[1] < b.maxx
               /\ b.miny <= p[2] /\ p[2] < b.maxy
BoxPixels(b) == {p \in (b.minx .. b.maxx - 1) \X (b.miny .. b.maxy - 1) : TRUE}

Pixels == (0 .. ImgCols - 1) \X (0 .. ImgRows - 1)
ImageBox == Box(0, 0, ImgCols, ImgRows)
DemBounds == Box(0, 0, DemCols, DemRows)

\* ------------------------------------------------------------- transforms
LeftShift == <<1, 0>>
RightShift == <<1, 1>>

\* elem_quot(left_lowres_pix, downsample_scale), the scale being 1/SubFactor
ToFullRes(pix) == <<SubFactor * pix[1], SubFactor * pix[2]>>

\* tx_left->reverse: transformed left pixel -> raw left camera pixel.
\* It throws at the pixel left_bad names when left_bad.kind = "tx".
TxLeftReverse(q) ==
  IF left_bad.kind = "tx" /\ q = ToFullRes(left_bad.pix)
    THEN [threw |-> TRUE, val |-> q]
    ELSE [threw |-> FALSE, val |-> <<q[1] - LeftShift[1], q[2] - LeftShift[2]>>]

\* tx_right->forward: raw right camera pixel -> transformed right pixel.
\* It throws for a raw pixel left of its domain.
TxRightForward(q) ==
  IF q[1] < 0
    THEN [threw |-> TRUE, val |-> q]
    ELSE [threw |-> FALSE, val |-> <<q[1] + RightShift[1], q[2] + RightShift[2]>>]

\* ---------------------------------------------------------------- cameras
\* left_camera_model->camera_center / pixel_to_vector: the ray of a raw pixel
LeftCamera(raw) ==
  IF left_bad.kind = "cam" /\ raw = TxLeftReverse(ToFullRes(left_bad.pix)).val
    THEN [threw |-> TRUE, ray |-> raw]
    ELSE [threw |-> FALSE, ray |-> raw]

\* xyz + bias * m_dem_error * left_camera_vec
Biased(xyz, bias, err) == [ray |-> xyz.ray, t |-> xyz.t + bias * err]

\* m_right_camera_model->point_to_pixel: throws outside the window tmin..tmax
RightCamera(pt) ==
  IF pt.t < right_cam.tmin \/ pt.t > right_cam.tmax
    THEN [threw |-> TRUE, val |-> <<0, 0>>]
    ELSE [threw |-> FALSE,
          val |-> <<pt.ray[1] + right_cam.a[1] * pt.t + right_cam.b[1],
                    pt.ray[2] + right_cam.a[2] * pt.t + right_cam.b[2]>>]

\* -------------------------------------------------------------------- DEM
NoData == -1
TGround == CamH - GroundH
TBump == CamH - BumpH
RayX(col) == SubFactor * col - LeftShift[1]

\* m_dem_georef.lonlat_to_pixel(cartesian_to_geodetic(xyz)), rounded
DemPixel(pt) == <<DemX0 + pt.ray[1] + DemStep * pt.t, DemY0 + pt.ray[2]>>

\* the DEM raster: flat at GroundH, a ridge of height BumpH, a no-data strip
DemValue(d) ==
  IF ~InBox(DemBounds, d) THEN NoData
  ELSE IF \E c \in hole_cols : d[1] = DemX0 + RayX(c) + DemStep * TGround THEN NoData
  ELSE IF \E c \in bump_cols : d[1] = DemX0 + RayX(c) + DemStep * TBump THEN BumpH
  ELSE GroundH

\* vw::cartography::demHeightGuess(m_dem)
m_height_guess == GroundH

\* prev_xyz = Vector3(): no previous solution
NoHint == [ray |-> <<0, 0>>, t |-> -1]

\* the points of a ray that lie on the DEM surface inside the box read
Crossings(ray, box) ==
  {t \in 0 .. CamH : /\ InBox(box, DemPixel([ray |-> ray, t |-> t]))
                     /\ DemValue(DemPixel([ray |-> ray, t |-> t])) = CamH - t}

\* camera_pixel_to_dem_xyz: the solver starts from prev_xyz when there is
\* one, else from the height guess, and converges to the nearest crossing
CameraPixelToDemXyz(ray, box, prev_xyz) ==
  LET cands == Crossings(ray, box)
      start == IF prev_xyz = NoHint THEN CamH - m_height_guess ELSE prev_xyz.t
      best  == CHOOSE t \in cands :
                 \A u \in cands : \/ Abs(t - start) < Abs(u - start)
                                  \/ (Abs(t - start) = Abs(u - start) /\ t <= u)
  IN IF cands = {} THEN [has_intersection |-> FALSE, xyz |-> NoHint]
     ELSE [has_intersection |-> TRUE, xyz |-> [ray |-> ray, t |-> best]]

\* lowResPixToDemXyz.  threw: tx_left->reverse raised (outside the try);
\* ok: the return value; prev_xyz: the updated guess
LowResPixToDemXyz(left_lowres_pix, box, prev_xyz) ==
  LET rev == TxLeftReverse(ToFullRes(left_lowres_pix))
      cam == LeftCamera(rev.val)
      hit == CameraPixelToDemXyz(cam.ray, box, prev_xyz)
  IN IF rev.threw
       THEN [threw |-> TRUE, ok |-> FALSE, xyz |-> NoHint, prev_xyz |-> prev_xyz]
     ELSE IF cam.threw
       THEN [threw |-> FALSE, ok |-> FALSE, xyz |-> NoHint, prev_xyz |-> prev_xyz]
     ELSE IF ~hit.has_intersection
       THEN [threw |-> FALSE, ok |-> FALSE, xyz |-> NoHint, prev_xyz |-> prev_xyz]
     ELSE [threw |-> FALSE, ok |-> TRUE, xyz |-> hit.xyz, prev_xyz |-> hit.xyz]

\* ------------------------------------------------- the disparity bracket
BiasOf(k) == IF k = 0 THEN -1 ELSE IF k = 1 THEN 1 ELSE 0

\* one turn of the loop over k: reproject the biased point.  The offset is
\* right_lowres_pix - left_lowres_pix in units of 1/SubFactor pixel; err is
\* m_dem_error
Reproject(xyz, left_lowres_pix, k, err) ==
  LET cam == RightCamera(Biased(xyz, BiasOf(k), err))
      fwd == TxRightForward(cam.val)
  IN IF cam.threw \/ fwd.threw
       THEN [ok |-> FALSE, off |-> <<0, 0>>, rpix |-> <<0, 0>>]
       ELSE [ok |-> TRUE,
             off |-> <<fwd.val[1] - SubFactor * left_lowres_pix[1],
                       fwd.val[2] - SubFactor * left_lowres_pix[2]>>,
             rpix |-> fwd.val]

\* the break of the loop: the middle estimate is reprojected only when
\* the two endpoints did not both succeed
TriedAll(r0, r1) == {0, 1, 2}
Tried(r0, r1) == IF r0.ok /\ r1.ok THEN {0, 1} ELSE {0, 1, 2}

\* BBox2f(0,0,0,0), also what get_disparity_range gives with no valid pixel
ZeroRange == [minx |-> 0, miny |-> 0, maxx |-> 0, maxy |-> 0]

RECURSIVE SetMin(_)
SetMin(S) == LET x == CHOOSE x \in S : TRUE
             IN IF S = {x} THEN x ELSE Min(x, SetMin(S \ {x}))
RECURSIVE SetMax(_)
SetMax(S) == LET x == CHOOSE x \in S : TRUE
             IN IF S = {x} THEN x ELSE Max(x, SetMax(S \ {x}))

\* stereo::get_disparity_range over the valid pixels of curr_pixel_disp_range
GetDisparityRange(offs) ==
  IF offs = {} THEN ZeroRange
  ELSE [minx |-> SetMin({o[1] : o \in offs}), miny |-> SetMin({o[2] : o \in offs}),
        maxx |-> SetMax({o[1] : o \in offs}), maxy |-> SetMax({o[2] : o \in offs})]

\* round((search_range.min() + search_range.max())/2.0)
Midpoint(rg) == <<RoundDiv(rg.minx + rg.maxx, 2 * SubFactor),
                  RoundDiv(rg.miny + rg.maxy, 2 * SubFactor)>>

\* ceil((search_range.max() - search_range.min())/2.0)
HalfWidthFloor(rg) == <<(rg.maxx - rg.minx) \div (2 * SubFactor),
                        (rg.maxy - rg.miny) \div (2 * SubFactor)>>
HalfWidthSigned(rg) == <<CeilDiv(rg.minx - rg.maxx, 2 * SubFactor),
                         CeilDiv(rg.miny - rg.maxy, 2 * SubFactor)>>
HalfWidth(rg) == <<CeilDiv(rg.maxx - rg.minx, 2 * SubFactor),
                   CeilDiv(rg.maxy - rg.miny, 2 * SubFactor)>>

\* the test that skips the pixel
RejectDegenerate(rg) == rg.minx = rg.maxx /\ rg.miny = rg.maxy
NeverRejected(rg) == FALSE
RangeRejected(rg) == rg = ZeroRange

\* what the per-pixel pass leaves for a pixel; the fields after spread
\* record how that came about.  writes: how often the call wrote the cell
\* of the block (and of the spread raster): once by the first loop
InvalidPx == [valid |-> FALSE, disp |-> <<0, 0>>, spread |-> <<0, 0>>,
              writes |-> 1, sampled |-> FALSE, hit |-> FALSE, guess |-> NoHint, xyz |-> NoHint,
              tried |-> {}, succ |-> {}, offs |-> {}, rpix |-> {},
              range |-> ZeroRange]

\* body of the loop over col, after a successful lowResPixToDemXyz
PixelBracket(left_lowres_pix, xyz, guess, err) ==
  LET r     == [k \in 0 .. 2 |-> Reproject(xyz, left_lowres_pix, k, err)]
      tried == Tried(r[0], r[1])
      succ  == {k \in tried : r[k].ok}
      offs  == {r[k].off : k \in succ}
      rg    == GetDisparityRange(offs)
      base  == [InvalidPx EXCEPT !.sampled = TRUE, !.hit = TRUE, !.guess = guess,
                                 !.xyz = xyz, !.tried = tried, !.succ = succ,
                                 !.offs = offs, !.rpix = {r[k].rpix : k \in succ},
                                 !.range = rg]
  IN IF RangeRejected(rg) THEN base
     ELSE [base EXCEPT !.valid = TRUE, !.disp = Midpoint(rg), !.spread = HalfWidth(rg),
                       !.writes = @ + 1]

\* ------------------------------------------------------------ the DEM box
\* the points sampled on the two diagonals of the tile
Diagonals(bbox) ==
  LET wid == Width(bbox) - 1
      hgt == Height(bbox) - 1
      dim == Max(1, CDiv(Max(wid, hgt), DiagDivisor))
      d1  == [i \in 1 .. dim + 1 |->
                <<bbox.minx + CDiv((i - 1) * wid, dim), bbox.miny + CDiv((i - 1) * hgt, dim)>>]
      d2  == [i \in 1 .. dim + 1 |->
                <<bbox.minx + CDiv((i - 1) * wid, dim),
                  bbox.miny + hgt - CDiv((i - 1) * hgt, dim)>>]
  IN d1 \o d2

\* BBox2i::grow: the box comes to hold the pixel (max is exclusive)
Grow(box, pix) ==
  IF IsEmptyBox(box) THEN Box(pix[1], pix[2], pix[1] + 1, pix[2] + 1)
  ELSE Box(Min(box.minx, pix[1]), Min(box.miny, pix[2]),
           Max(box.maxx, pix[1] + 1), Max(box.maxy, pix[2] + 1))

\* the loop over the diagonals, on the whole DEM, prev_xyz carried along
RECURSIVE DiagPass(_, _, _, _)
DiagPass(diagonals, k, prev_xyz, dem_box) ==
  IF k > Len(diagonals)
    THEN [threw |-> FALSE, dem_box |-> dem_box, prev_xyz |-> prev_xyz]
  ELSE LET r == LowResPixToDemXyz(diagonals[k], DemBounds, prev_xyz)
       IN IF r.threw
            THEN [threw |-> TRUE, dem_box |-> dem_box, prev_xyz |-> prev_xyz]
          ELSE IF ~r.ok
            THEN DiagPass(diagonals, k + 1, r.prev_xyz, dem_box)
          ELSE DiagPass(diagonals, k + 1, r.prev_xyz, Grow(dem_box, DemPixel(r.xyz)))

\* dem_box.expand(expand); dem_box.crop(bounding_box(m_dem)).  A box no
\* sample grew stays empty.
ExpandCrop(dem_box) ==
  IF IsEmptyBox(dem_box) THEN EmptyBox
  ELSE LET expand == Max(DemBoxExpand, CDiv(Max(Width(dem_box), Height(dem_box)), 10))
           x0 == Max(dem_box.minx - expand, DemBounds.minx)
           y0 == Max(dem_box.miny - expand, DemBounds.miny)
           x1 == Min(dem_box.maxx + expand, DemBounds.maxx)
           y1 == Min(dem_box.maxy + expand, DemBounds.maxy)
       IN IF x0 >= x1 \/ y0 >= y1 THEN EmptyBox ELSE Box(x0, y0, x1, y1)

\* ------------------------------------------------------------ prerasterize
InvalidSpread == [valid |-> FALSE, val |-> <<0, 0>>]

\* the first loop: every pixel of bbox invalid in the block and the spread
InvalidateAll(bbox, spread) ==
  [px |-> [p \in BoxPixels(bbox) |-> InvalidPx],
   spread |-> [p \in Pixels |-> InvalidSpread]]
Invalidate(bbox, spread) ==
  [px |-> [p \in BoxPixels(bbox) |-> InvalidPx],
   spread |-> [p \in Pixels |-> IF InBox(bbox, p) THEN InvalidSpread ELSE spread[p]]]

\* Vector3 prev_xyz: a local of the call, default-constructed
StalePrevXyz(last) == last.prev_xyz
LocalPrevXyz(last) == NoHint

\* prev_xyz = Vector3() at the start of a sampled row
KeepGuess(prev_xyz) == prev_xyz
WipeGuess(prev_xyz) == NoHint

\* the test that skips a row or a column
NeverSkipped(i) == FALSE
Skipped(i) == CMod(i, m_pixel_sample) # 0

\* m_disp_spread(col, row) after the range test: assigned only when the
\* pixel was not skipped
SpreadCellAlways(b, old) == [valid |-> TRUE, val |-> b.spread]
SpreadCell(b, old) == IF b.valid THEN [valid |-> TRUE, val |-> b.spread] ELSE old

\* the loop over col of one sampled row.  acc: [threw, px, spread, prev_xyz]
RECURSIVE ColLoop(_, _, _, _, _)
ColLoop(bbox, dem_crop, row, col, acc) ==
  IF col >= bbox.maxx \/ acc.threw THEN acc
  ELSE IF Skipped(col) THEN ColLoop(bbox, dem_crop, row, col + 1, acc)
  ELSE
    LET pix == <<col, row>>
        r   == LowResPixToDemXyz(pix, dem_crop, acc.prev_xyz)
        b   == PixelBracket(pix, r.xyz, acc.prev_xyz, m_dem_error)
    IN IF r.threw THEN [acc EXCEPT !.threw = TRUE]
       ELSE IF ~r.ok
         THEN ColLoop(bbox, dem_crop, row, col + 1,
                [acc EXCEPT !.px[pix] = [InvalidPx EXCEPT !.sampled = TRUE,
                                                          !.guess = acc.prev_xyz]])
       ELSE ColLoop(bbox, dem_crop, row, col + 1,
              [acc EXCEPT !.prev_xyz = r.prev_xyz,
                          !.px[pix] = b,
                          !.spread[pix] = SpreadCell(b, @)])

\* the loop over row
RECURSIVE RowLoop(_, _, _, _)
RowLoop(bbox, dem_crop, row, acc) ==
  IF row >= bbox.maxy \/ acc.threw THEN acc
  ELSE IF Skipped(row) THEN RowLoop(bbox, dem_crop, row + 1, acc)
  ELSE RowLoop(bbox, dem_crop, row + 1,
         ColLoop(bbox, dem_crop, row, bbox.minx,
                 [acc EXCEPT !.prev_xyz = WipeGuess(acc.prev_xyz)]))

\* DemDisparity::prerasterize(bbox) with the spread raster as it stands and
\* the record of the previous call.  status: "returned" or "threw"
Prerasterize(bbox, spread, last) ==
  LET inv   == Invalidate(bbox, spread)
      diag  == DiagPass(Diagonals(bbox), 1, LocalPrevXyz(last), EmptyBox)
      crop  == ExpandCrop(diag.dem_box)
      acc0  == [threw |-> FALSE, px |-> inv.px, spread |-> inv.spread,
                prev_xyz |-> diag.prev_xyz]
      out   == RowLoop(bbox, crop, bbox.miny, acc0)
  IN IF diag.threw \/ (IsEmptyBox(crop) /\ empty_crop_throws)
       THEN [status |-> "threw", bbox |-> bbox, px |-> inv.px, spread |-> inv.spread,
             dem_box |-> crop, prev_xyz |-> diag.prev_xyz]
     ELSE [status |-> IF out.threw THEN "threw" ELSE "returned", bbox |-> bbox,
           px |-> out.px, spread |-> out.spread, dem_box |-> crop,
           prev_xyz |-> out.prev_xyz]

\* ------------------------------------------------------------ the scenes
ColIntervals == {{}} \cup {c0 .. c1 : c0, c1 \in 0 .. ImgCols - 1}
\* the no-data columns: an interval, or the two border columns
HoleSets == ColIntervals \cup {{0, ImgCols - 1}}
NoLeftBad == [kind |-> "none", pix |-> <<0, 0>>]
LeftBads == {NoLeftBad} \cup {[kind |-> k, pix |-> p] : k \in {"tx", "cam"}, p \in Pixels}
\* the right camera sees the points of a ray with tmin <= t <= tmax
RightWindows == {<<0, TGround - 1>>, <<0, TGround>>, <<0, CamH + MaxDemError>>,
                 <<TGround, TGround>>, <<TGround, CamH + MaxDemError>>,
                 <<TGround - 1, TGround + 1>>,
                 <<TGround + 1, TGround>>, <<TGround + 1, CamH + MaxDemError>>}
\* and maps the point [ray, t] to the raw pixel ray + a*t + b
RightLines == {<<<<0, 0>>, <<0, -1>>>>, <<<<0, 0>>, <<2, 1>>>>, <<<<3, 0>>, <<0, 0>>>>,
               <<<<-1, 2>>, <<3, -4>>>>, <<<<1, 0>>, <<-9, 0>>>>}
RightCams == {[a |-> l[1], b |-> l[2], tmin |-> w[1], tmax |-> w[2]] :
                l \in RightLines, w \in RightWindows}
BlindRightCam == [a |-> <<1, 0>>, b |-> <<0, 0>>, tmin |-> TGround + 1, tmax |-> TGround]
PlainRightCam == [a |-> <<1, 0>>, b |-> <<0, 0>>, tmin |-> 0, tmax |-> CamH + MaxDemError]

\* the blocks a writer cuts the image into for a raster tile size
GridTiles(size) ==
  {Box(x, y, Min(x + size, ImgCols), Min(y + size, ImgRows)) :
     x \in {c \in 0 .. ImgCols - 1 : c % size = 0},
     y \in {r \in 0 .. ImgRows - 1 : r % size = 0}}

\* the tiles a caller asks for: the blocks of every tile size up to
\* MaxTile, and the whole image
BBoxes == UNION {GridTiles(size) : size \in 1 .. MaxTile} \cup {ImageBox}

\* a scene that varies the right camera over flat, complete terrain
RightScenes ==
  /\ m_pixel_sample \in 1 .. MaxSample
  /\ m_dem_error \in 0 .. MaxDemError
  /\ left_bad = NoLeftBad
  /\ bump_cols = {} /\ hole_cols = {}
  /\ right_cam \in RightCams
  /\ empty_crop_throws = FALSE

\* a scene that varies the terrain.  The DEM box of a tile can stay empty
\* only where a column has no ground and no ridge, so only there do the
\* two outcomes of an empty box differ.
TerrainScenes ==
  /\ m_pixel_sample \in 1 .. MaxSample
  /\ m_dem_error = 1
  /\ left_bad = NoLeftBad
  /\ bump_cols \in ColIntervals /\ hole_cols \in HoleSets
  /\ right_cam = PlainRightCam
  /\ empty_crop_throws \in IF hole_cols \ bump_cols = {} THEN {FALSE} ELSE BOOLEAN

\* a scene that varies where the left transform or the left camera throws
FailScenes ==
  /\ m_pixel_sample \in 1 .. MaxSample
  /\ m_dem_error = 1
  /\ left_bad \in LeftBads \ {NoLeftBad}
  /\ bump_cols = {} /\ hole_cols = {}
  /\ right_cam \in {PlainRightCam, BlindRightCam}
  /\ empty_crop_throws = FALSE

\* ImageView<PixelMask<Vector2i>> disp_spread(cols, rows): all invalid
NewSpread == [p \in Pixels |-> InvalidSpread]
NoCall == [status |-> "none", bbox |-> ImageBox, px |-> [p \in {} |-> InvalidPx],
           dem_box |-> EmptyBox, prev_xyz |-> NoHint]
\* what is kept of a call: all but the spread raster, which is disp_spread
Outcome(r) == [status |-> r.status, bbox |-> r.bbox, px |-> r.px,
               dem_box |-> r.dem_box, prev_xyz |-> r.prev_xyz]

\* ------------------------------------------------------------- the pass
Isis == <<"i", "s", "i", "s">>
SessionNames == {Isis, <<"i", "s", "i", "s", "m", "a", "p", "i", "s", "i", "s">>,
                 <<"d", "g">>, <<"d", "g", "m", "a", "p", "r", "p", "c">>,
                 <<"p", "i", "n", "h", "o", "l", "e">>,
                 <<"i", "s", "i">>}

\* session_name.find("isis") != std::string::npos
FindIsis(name) ==
  \E i \in 1 .. Len(name) : /\ i + Len(Isis) - 1 <= Len(name)
                            /\ SubSeq(name, i, i + Len(Isis) - 1) = Isis

\* which writer produce_dem_disparity hands the disparity view to
AlwaysBlockWriter(name) == "block"
ChooseWriter(name) == IF FindIsis(name) THEN "single" ELSE "block"

TxKinds == {"Map2CamTrans", "plain"}
CallerTx == [left |-> 1, right |-> 2]
\* the constructor: a Map2CamTrans is copied once, for the view; any other
\* transform is shared with the caller
ViewTx(kind) == [left  |-> IF kind.left = "Map2CamTrans" THEN 3 ELSE CallerTx.left,
                 right |-> IF kind.right = "Map2CamTrans" THEN 4 ELSE CallerTx.right]

\* the transform objects one tile computation calls reverse / forward on
TileTx(view_tx, w) == view_tx

Workers == 1 .. NumThreads
Idle == [state |-> "idle", bbox |-> ImageBox, tx |-> CallerTx]

\* opt.raster_tile_size = Vector2i(64, 64), at the scale of the model
OverlappingTiles == GridTiles(TileSize) \cup {ImageBox}
Tiles == GridTiles(TileSize)

\* the stride produce_dem_disparity passes to the view
PassPixelSample == 2

\* the tests of the settings at the head of produce_dem_disparity
RejectsNonPositive(file, err, georef) == file = "" \/ err <= 0 \/ ~georef
RejectsNoGeorefLate(file, err, georef) == file = "" \/ err < 0
ConfigRejected(file, err, georef) == file = "" \/ err < 0 \/ ~georef

DemFiles == {"", "dem.tif"}
DemErrors == -1 .. 1
\* the raster tile sizes a caller comes with
CallerTileSizes == {1, MaxTile + 1}
DisparityFile == "D_sub.tif"
SpreadFile == "D_sub_spread.tif"
NoneWritten == [p \in Pixels |-> 0]

\* CsmModel(): no sensor model is loaded
NoCsmCall == [status |-> "none", point |-> <<0, 0, 0>>, pixel |-> <<0, 0>>,
              achieved |-> 0, warned |-> FALSE]
CsmIdle ==
  /\ m_csm_model = FALSE
  /\ csm_ret = NoCsmCall

\* no thread is in initialize_plugins, no plugin is registered
InitThreads == 1 .. NumThreads
PlugIdle ==
  /\ csm_init_mutex = 0
  /\ plugins = {}
  /\ lib_loads = 0
  /\ init_pc = [t \in InitThreads |-> "out"]
  /\ init_calls = [t \in InitThreads |-> 0]
  /\ plugin_exists = TRUE

\* no file was given to load_model
NoLoad == [status |-> "none", is_model_state |-> FALSE, type |-> "none"]
StIdle ==
  /\ st_file = <<>>
  /\ st_ret = NoLoad

\* no coefficients
RpcIdle ==
  /\ rpc_C = <<>>
  /\ rpc_vecs = [lineNum |-> <<>>, lineDen |-> <<>>, sampNum |-> <<>>, sampDen |-> <<>>]
  /\ rpc_ret = "none"

\* no LasLoader
NoLoader ==
  [constructed |-> FALSE, m_num_points_to_load |-> 0, m_num_total_points |-> 0,
   m_points_count |-> 0, m_load_ratio |-> <<0, 1>>, m_calc_shift |-> FALSE,
   m_shift_was_calc |-> FALSE, m_shift |-> 0, box_empty |-> TRUE,
   m_data |-> <<>>, out_of_bounds |-> FALSE, read |-> 0, done |-> FALSE]
NoLasCall == [op |-> "none", value |-> TRUE, count_before |-> 0]
LasIdle ==
  /\ las_loader = NoLoader
  /\ las_ret = NoLasCall

\* MatchList(): no image
NoMlCall ==
  [op |-> "none", arg |-> 0, flag |-> FALSE, value |-> FALSE, threw |-> FALSE,
   wrote |-> {}]
MlIdle ==
  /\ m_matches = <<>>
  /\ m_valid_matches = <<>>
  /\ ml_ret = NoMlCall

ToolsIdle ==
  /\ PlugIdle
  /\ StIdle
  /\ RpcIdle
  /\ LasIdle
  /\ MlIdle

PassIdle ==
  /\ session_name = Isis
  /\ tx_kind = [left |-> "plain", right |-> "plain"]
  /\ m_tx = CallerTx
  /\ pc = "view"
  /\ writer = "none"
  /\ todo = {}
  /\ worker = [w \in Workers |-> Idle]
  /\ dem_file = "dem.tif"
  /\ dem_error = m_dem_error
  /\ has_georef = TRUE
  /\ raster_tile_size = TileSize
  /\ orig_tile_size = TileSize
  /\ files = {}
  /\ written = NoneWritten
  /\ CsmIdle

\* ------------------------------------------ calls of prerasterize on a view
Init ==
  /\ TerrainScenes \/ FailScenes
  /\ disp_spread = NewSpread
  /\ ret = NoCall
  /\ PassIdle
  /\ ToolsIdle

\* rasterize(dest, bbox): one whole call of prerasterize(bbox)
Rasterize(bbox) ==
  /\ \E r \in {Prerasterize(bbox, disp_spread, ret)} :
       ret' = Outcome(r) /\ disp_spread' = r.spread
  /\ UNCHANGED <<sceneVars, passVars, csmVars, toolVars>>

Next == \E bbox \in BBoxes : Rasterize(bbox)

Spec == Init /\ [][Next]_vars

\* the same calls, over the scenes that vary the right camera
InitBracket ==
  /\ RightScenes
  /\ disp_spread = NewSpread
  /\ ret = NoCall
  /\ PassIdle
  /\ ToolsIdle

SpecBracket == InitBracket /\ [][Next]_vars

\* ------------------------------------------------- produce_dem_disparity
InitPass ==
  /\ m_pixel_sample = PassPixelSample
  /\ m_dem_error = 0
  /\ dem_file \in DemFiles
  /\ dem_error \in DemErrors
  /\ has_georef \in BOOLEAN
  /\ raster_tile_size \in CallerTileSizes
  /\ orig_tile_size = 0
  /\ files = {}
  /\ written = NoneWritten
  /\ CsmIdle
  /\ ToolsIdle
  /\ left_bad \in {NoLeftBad, [kind |-> "tx", pix |-> <<0, 0>>]}
  /\ bump_cols = {} /\ hole_cols = {}
  /\ right_cam = PlainRightCam
  /\ empty_crop_throws = FALSE
  /\ disp_spread = NewSpread
  /\ ret = NoCall
  /\ session_name \in SessionNames
  /\ tx_kind \in [left : TxKinds, right : TxKinds]
  /\ m_tx = CallerTx
  /\ pc = "start"
  /\ writer = "none"
  /\ todo = {}
  /\ worker = [w \in Workers |-> Idle]

\* a setting is rejected: ArgumentErr, before anything else is done
ConfigError ==
  /\ pc = "start"
  /\ ConfigRejected(dem_file, dem_error, has_georef)
  /\ pc' = "config_error"
  /\ UNCHANGED <<sceneVars, disp_spread, ret, session_name, tx_kind, m_tx, writer, todo,
                 worker, cfgVars, raster_tile_size, orig_tile_size, files, written,
                 csmVars, toolVars>>

\* the settings pass; the tile size is set, the DemDisparity view is
\* constructed and the writer of the disparity file is opened
StartWrite ==
  /\ pc = "start"
  /\ ~ConfigRejected(dem_file, dem_error, has_georef)
  /\ orig_tile_size' = raster_tile_size
  /\ raster_tile_size' = TileSize
  /\ m_dem_error' = dem_error
  /\ m_tx' = ViewTx(tx_kind)
  /\ writer' = ChooseWriter(session_name)
  /\ files' = files \cup {DisparityFile}
  /\ todo' = Tiles
  /\ pc' = "write_disparity"
  /\ UNCHANGED <<m_pixel_sample, left_bad, bump_cols, hole_cols, right_cam,
                 empty_crop_throws, disp_spread, ret, session_name, tx_kind, worker,
                 cfgVars, written, csmVars, toolVars>>

\* a writer thread takes a tile and enters prerasterize.  vw::write_image
\* rasterizes one block after the other in the calling thread;
\* block_write_gdal_image gives blocks to the threads of a pool.
TileStart(w, bbox) ==
  /\ pc = "write_disparity"
  /\ bbox \in todo
  /\ worker[w].state = "idle"
  /\ writer = "single" => \A v \in Workers : worker[v].state = "idle"
  /\ todo' = todo \ {bbox}
  /\ worker' = [worker EXCEPT ![w] = [state |-> "running", bbox |-> bbox,
                                      tx |-> TileTx(m_tx, w)]]
  /\ UNCHANGED <<sceneVars, disp_spread, ret, session_name, tx_kind, m_tx, pc, writer,
                 cfgVars, raster_tile_size, orig_tile_size, files, written, csmVars, toolVars>>

\* the tile computation calls m_tx_left->reverse (lowResPixToDemXyz)
EnterReverse(w) ==
  /\ pc = "write_disparity"
  /\ worker[w].state = "running"
  /\ worker' = [worker EXCEPT ![w].state = "in_reverse"]
  /\ UNCHANGED <<sceneVars, disp_spread, ret, session_name, tx_kind, m_tx, pc, writer, todo,
                 cfgVars, raster_tile_size, orig_tile_size, files, written, csmVars, toolVars>>

\* the tile computation calls m_tx_right->forward
EnterForward(w) ==
  /\ pc = "write_disparity"
  /\ worker[w].state = "running"
  /\ worker' = [worker EXCEPT ![w].state = "in_forward"]
  /\ UNCHANGED <<sceneVars, disp_spread, ret, session_name, tx_kind, m_tx, pc, writer, todo,
                 cfgVars, raster_tile_size, orig_tile_size, files, written, csmVars, toolVars>>

\* the call of the transform returns
LeaveTx(w) ==
  /\ pc = "write_disparity"
  /\ worker[w].state \in {"in_reverse", "in_forward"}
  /\ worker' = [worker EXCEPT ![w].state = "running"]
  /\ UNCHANGED <<sceneVars, disp_spread, ret, session_name, tx_kind, m_tx, pc, writer, todo,
                 cfgVars, raster_tile_size, orig_tile_size, files, written, csmVars, toolVars>>

\* prerasterize returns its block, or its exception ends the pass
TileFinish(w) ==
  /\ pc = "write_disparity"
  /\ worker[w].state = "running"
  /\ \E r \in {Prerasterize(worker[w].bbox, disp_spread, ret)} :
        /\ ret' = Outcome(r)
        /\ disp_spread' = r.spread
        /\ pc' = IF r.status = "threw" THEN "error" ELSE pc
  /\ written' = [p \in Pixels |->
                   IF InBox(worker[w].bbox, p) THEN written[p] + 1 ELSE written[p]]
  /\ worker' = [worker EXCEPT ![w] = Idle]
  /\ UNCHANGED <<sceneVars, session_name, tx_kind, m_tx, writer, todo,
                 cfgVars, raster_tile_size, orig_tile_size, files, csmVars, toolVars>>

\* the writer of the disparity file returns when every block is computed
DisparityStarted == TRUE
DisparityWritten == todo = {} /\ \A w \in Workers : worker[w].state = "idle"

\* the disparity file is complete; the spread raster is written
WriteSpread ==
  /\ pc = "write_disparity"
  /\ DisparityWritten
  /\ files' = files \cup {SpreadFile}
  /\ pc' = "write_spread"
  /\ UNCHANGED <<sceneVars, disp_spread, ret, session_name, tx_kind, m_tx, writer, todo,
                 worker, cfgVars, raster_tile_size, orig_tile_size, written, csmVars, toolVars>>

\* the tile size goes back to the caller's; produce_dem_disparity returns
Return ==
  /\ pc = "write_spread"
  /\ raster_tile_size' = orig_tile_size
  /\ pc' = "done"
  /\ UNCHANGED <<sceneVars, disp_spread, ret, session_name, tx_kind, m_tx, writer, todo,
                 worker, cfgVars, orig_tile_size, files, written, csmVars, toolVars>>

NextPass ==
  \/ ConfigError
  \/ StartWrite
  \/ \E w \in Workers, bbox \in Tiles : TileStart(w, bbox)
  \/ \E w \in Workers : EnterReverse(w)
  \/ \E w \in Workers : EnterForward(w)
  \/ \E w \in Workers : LeaveTx(w)
  \/ \E w \in Workers : TileFinish(w)
  \/ WriteSpread
  \/ Return

SpecPass == InitPass /\ [][NextPass]_vars

\* ---------------------------------------------- CsmModel::point_to_pixel
\* Pixels are in units of half a pixel, precisions in units of
\* m_desired_precision / DesiredPrecision.
AspToCsmShift == <<1, 1>>
m_desired_precision == DesiredPrecision

VectorToEcefCoord(v) == [x |-> v[1], y |-> v[2], z |-> v[3]]
ImageCoordToVector(c) == <<c.samp, c.line>>

\* the image point of a ground point, and what one run of the iterative
\* solve of the sensor model makes of it: a solve that ends err away from
\* it reports err as the precision achieved, and may add a warning
TrueImage(ecef) == [samp |-> 2 * (ecef.x + ecef.z), line |-> 2 * ecef.y]
Solves == [err : 0 .. MaxPrecision, warn : BOOLEAN]
GroundToImage(ecef, desired, solve) ==
  [imagePt |-> [samp |-> TrueImage(ecef).samp + solve.err, line |-> TrueImage(ecef).line],
   achievedPrecision |-> solve.err,
   warnings |-> solve.warn]

Points == (0 .. MaxCoord) \X (0 .. MaxCoord) \X (0 .. MaxCoord)

\* CsmModel::point_to_pixel: achievedPrecision is received and not read,
\* warnings_ptr is NULL
PointToPixel(point, solve) ==
  LET g == GroundToImage(VectorToEcefCoord(point), m_desired_precision, solve)
      v == ImageCoordToVector(g.imagePt)
  IN IF ~m_csm_model
       THEN [status |-> "threw", point |-> point, pixel |-> <<0, 0>>,
             achieved |-> 0, warned |-> FALSE]
       ELSE [status |-> "returned", point |-> point,
             pixel |-> <<v[1] - AspToCsmShift[1], v[2] - AspToCsmShift[2]>>,
             achieved |-> g.achievedPrecision, warned |-> g.warnings]

\* no DemDisparity view is in use
DemIdle ==
  /\ m_pixel_sample = 1 /\ m_dem_error = 0
  /\ left_bad = NoLeftBad
  /\ bump_cols = {} /\ hole_cols = {}
  /\ right_cam = PlainRightCam
  /\ empty_crop_throws = FALSE
  /\ disp_spread = NewSpread
  /\ ret = NoCall
  /\ PassIdle

InitCsm ==
  /\ DemIdle
  /\ ToolsIdle

\* setModelFromStateString / load_model_from_isd: m_csm_model.reset(...)
LoadModel ==
  /\ m_csm_model' = TRUE
  /\ UNCHANGED <<csm_ret, demVars, toolVars>>

CallPointToPixel(point, solve) ==
  /\ csm_ret' = PointToPixel(point, solve)
  /\ UNCHANGED <<m_csm_model, demVars, toolVars>>

NextCsm ==
  \/ LoadModel
  \/ \E point \in Points, solve \in Solves : CallPointToPixel(point, solve)

SpecCsm == InitCsm /\ [][NextCsm]_vars

\* ------------------------------------------ CsmModel::initialize_plugins
exceptPlug == <<demVars, csmVars, stVars, rpcVars, lasVars, mlVars>>

\* plugins.empty()
ListAlwaysEmpty(list) == TRUE
ListEmpty(list) == list = {}

\* loading libusgscsm makes it register itself with the Plugin interface
UsgsCsmPlugin == "UsgsAstroPluginCSM"

InitPlugins ==
  /\ DemIdle
  /\ csm_init_mutex = 0
  /\ plugins = {}
  /\ lib_loads = 0
  /\ init_pc = [t \in InitThreads |-> "out"]
  /\ init_calls = [t \in InitThreads |-> 0]
  /\ plugin_exists \in BOOLEAN
  /\ StIdle /\ RpcIdle /\ LasIdle /\ MlIdle

\* vw::Mutex::Lock lock(csm_init_mutex): the thread waits until it is free
EnterInit(t) ==
  /\ init_pc[t] = "out"
  /\ init_calls[t] < MaxCalls
  /\ csm_init_mutex = 0
  /\ csm_init_mutex' = t
  /\ init_pc' = [init_pc EXCEPT ![t] = "locked"]
  /\ init_calls' = [init_calls EXCEPT ![t] = @ + 1]
  /\ UNCHANGED <<plugins, lib_loads, plugin_exists, exceptPlug>>

\* csm::Plugin::getList(); return (the lock is released) when not empty
CheckPlugins(t) ==
  /\ init_pc[t] = "locked"
  /\ IF ListEmpty(plugins)
       THEN /\ init_pc' = [init_pc EXCEPT ![t] = "finding"]
            /\ UNCHANGED csm_init_mutex
       ELSE /\ init_pc' = [init_pc EXCEPT ![t] = "out"]
            /\ csm_init_mutex' = 0
  /\ UNCHANGED <<plugins, lib_loads, init_calls, plugin_exists, exceptPlug>>

\* find_csm_plugins: throws when libusgscsm is not in the folder (the lock
\* is released by its destructor)
FindPlugins(t) ==
  /\ init_pc[t] = "finding"
  /\ IF plugin_exists
       THEN /\ init_pc' = [init_pc EXCEPT ![t] = "loading"]
            /\ UNCHANGED csm_init_mutex
       ELSE /\ init_pc' = [init_pc EXCEPT ![t] = "out"]
            /\ csm_init_mutex' = 0
  /\ UNCHANGED <<plugins, lib_loads, init_calls, plugin_exists, exceptPlug>>

\* boost::dll::shared_library lib_usgs(plugin_files[i])
LoadPlugin(t) ==
  /\ init_pc[t] = "loading"
  /\ lib_loads' = lib_loads + 1
  /\ plugins' = plugins \cup {UsgsCsmPlugin}
  /\ init_pc' = [init_pc EXCEPT ![t] = "printing"]
  /\ UNCHANGED <<csm_init_mutex, init_calls, plugin_exists, exceptPlug>>

\* print_available_models(); return
FinishInit(t) ==
  /\ init_pc[t] = "printing"
  /\ init_pc' = [init_pc EXCEPT ![t] = "out"]
  /\ csm_init_mutex' = 0
  /\ UNCHANGED <<plugins, lib_loads, init_calls, plugin_exists, exceptPlug>>

NextPlugins ==
  \E t \in InitThreads :
    \/ EnterInit(t)
    \/ CheckPlugins(t)
    \/ FindPlugins(t)
    \/ LoadPlugin(t)
    \/ FinishInit(t)

SpecPlugins == InitPlugins /\ [][NextPlugins]_vars

\* --------------------------------------------- packCoeffs / unpackCoeffs
\* (RPCModelGen.cc)  NumCoeffs stands for the 20 coefficients of a CoeffVec,
\* PackedLen for the 78 that vary.
exceptRpc == <<demVars, csmVars, plugVars, stVars, lasVars, mlVars>>

PackedLen == 4 * NumCoeffs - 2
Coeffs == 0 .. MaxCoeff
CoeffVecs == [1 .. NumCoeffs -> Coeffs]
NoVecs == [lineNum |-> <<>>, lineDen |-> <<>>, sampNum |-> <<>>, sampDen |-> <<>>]

\* subvector(v, start, size), start counted from 0
SubVector(v, start, size) == SubSeq(v, start + 1, start + size)

\* the coefficients of a denominator that vary: subvector(den, 1, 19)
VaryingFromZero(den) == SubVector(den, 0, NumCoeffs - 1)
Varying(den) == SubVector(den, 1, NumCoeffs - 1)

UnpackCoeffs(C) ==
  [lineNum |-> SubVector(C, 0, NumCoeffs),
   lineDen |-> <<1>> \o SubVector(C, NumCoeffs, NumCoeffs - 1),
   sampNum |-> SubVector(C, 2 * NumCoeffs - 1, NumCoeffs),
   sampDen |-> <<1>> \o SubVector(C, 3 * NumCoeffs - 1, NumCoeffs - 1)]

PackCoeffs(v) ==
  v.lineNum \o Varying(v.lineDen) \o v.sampNum \o Varying(v.sampDen)

InitRpc ==
  /\ DemIdle
  /\ PlugIdle /\ StIdle /\ LasIdle /\ MlIdle
  /\ rpc_ret = "none"
  /\ \/ /\ rpc_C \in [1 .. PackedLen -> Coeffs] \cup [1 .. PackedLen - 1 -> Coeffs]
        /\ rpc_vecs = NoVecs
     \/ /\ rpc_C = <<>>
        /\ rpc_vecs \in [lineNum : CoeffVecs, lineDen : CoeffVecs,
                         sampNum : CoeffVecs, sampDen : CoeffVecs]

\* unpackCoeffs(C, lineNum, lineDen, sampNum, sampDen)
Unpack ==
  /\ rpc_C # <<>>
  /\ IF Len(rpc_C) = PackedLen
       THEN /\ rpc_vecs' = UnpackCoeffs(rpc_C)
            /\ rpc_ret' = "unpacked"
       ELSE /\ rpc_ret' = "error"
            /\ UNCHANGED rpc_vecs
  /\ UNCHANGED <<rpc_C, exceptRpc>>

\* packCoeffs(lineNum, lineDen, sampNum, sampDen, C)
Pack ==
  /\ rpc_vecs # NoVecs
  /\ rpc_C' = PackCoeffs(rpc_vecs)
  /\ rpc_ret' = "packed"
  /\ UNCHANGED <<rpc_vecs, exceptRpc>>

NextRpc == Unpack \/ Pack

SpecRpc == InitRpc /\ [][NextRpc]_vars

\* ------------------------------------------------- CsmModel::load_model
\* A file is the sequence of its characters.  The four USGSCSM sensor model
\* names are strings none of which begins with another.
exceptSt == <<demVars, csm_ret, plugVars, rpcVars, lasVars, mlVars>>

WhiteSpace == {" "}
FileChars == {" ", "F", "L", "{"}
FrameName == <<"F", "F">>
LsName == <<"L", "L">>
PushFrameName == <<"F", "L">>
SarName == <<"L", "F">>
SensorModelNames == {FrameName, LsName, PushFrameName, SarName}
StateFiles == UNION {[1 .. n -> FileChars] : n \in 0 .. MaxFileLen}

\* ifs >> line: leading whitespace is skipped, then characters are read up
\* to the next whitespace or the end of the file
RECURSIVE SkipWs(_)
SkipWs(s) ==
  IF s = <<>> THEN s
  ELSE IF Head(s) \in WhiteSpace THEN SkipWs(Tail(s)) ELSE s
RECURSIVE TakeToken(_)
TakeToken(s) ==
  IF s = <<>> \/ Head(s) \in WhiteSpace THEN <<>>
  ELSE <<Head(s)>> \o TakeToken(Tail(s))
FirstToken(file) == TakeToken(SkipWs(file))

\* model_state.rfind(name, 0) == 0
StartsWith(s, name) ==
  Len(s) >= Len(name) /\ SubSeq(s, 1, Len(name)) = name

\* the sensor model type setModelFromStateString constructs
Dispatch(model_state) ==
  IF StartsWith(model_state, FrameName) THEN "Frame"
  ELSE IF StartsWith(model_state, LsName) THEN "Ls"
  ELSE IF StartsWith(model_state, PushFrameName) THEN "PushFrame"
  ELSE IF StartsWith(model_state, SarName) THEN "Sar"
  ELSE "none"

\* what replaceModelState, stateAsJson and the check of the axes make of
\* the rest of the state
StateOutcomes == {"loaded", "state_error"}
\* what load_model_from_isd makes of an ISD
IsdOutcomes == {"isd_loaded", "isd_error"}

InitLoad ==
  /\ DemIdle
  /\ PlugIdle /\ RpcIdle /\ LasIdle /\ MlIdle
  /\ st_file \in StateFiles
  /\ st_ret = NoLoad

\* load_model(isd_path); loadModelFromStateFile reads the whole file as the
\* state string
LoadModelFile(isd, rest) ==
  LET line == FirstToken(st_file)
      is_model_state == line \in SensorModelNames
      model_state == st_file
      type == Dispatch(model_state)
  IN  /\ IF ~is_model_state
           THEN /\ st_ret' = [status |-> isd, is_model_state |-> FALSE, type |-> "none"]
                /\ m_csm_model' = (m_csm_model \/ isd = "isd_loaded")
           ELSE IF type = "none"
             THEN /\ st_ret' = [status |-> "could_not_create",
                                is_model_state |-> TRUE, type |-> "none"]
                  /\ UNCHANGED m_csm_model
             ELSE /\ st_ret' = [status |-> rest, is_model_state |-> TRUE, type |-> type]
                  /\ m_csm_model' = (m_csm_model \/ rest = "loaded")
      /\ UNCHANGED <<st_file, exceptSt>>

NextLoad ==
  \E isd \in IsdOutcomes, rest \in StateOutcomes : LoadModelFile(isd, rest)

SpecLoad == InitLoad /\ [][NextLoad]_vars

\* ------------------------------------------------------- pdal::LasLoader
\* (pc_align_utils.tcc)  m_data is kept as its columns, counted from 0; a
\* column holds the one value that stands for xyz - m_shift, or Unset.  The
\* stream calls processOne for each point of the file until it returns
\* false, then done.
exceptLas == <<demVars, csmVars, plugVars, stVars, rpcVars, mlVars>>

Unset == [set |-> FALSE, value |-> 0]
LasPoints == 1 .. 2
Columns(n) == [c \in 0 .. n - 1 |-> Unset]

\* done with reading points
NeverFull(count, n) == FALSE
Full(count, n) == count >= n

\* r > m_load_ratio, for r = k / RAND_MAX and the ratio <<num, den>>
AboveRatio(k, ratio) == k * ratio[2] > ratio[1] * RandMax

InitLas ==
  /\ DemIdle
  /\ PlugIdle /\ StIdle /\ RpcIdle /\ MlIdle
  /\ LasIdle

\* LasLoader(file_name, num_points_to_load, lonlat_box, ...)
ConstructLoader(n, total, calc_shift, box_empty) ==
  /\ ~las_loader.constructed
  /\ las_loader' =
       [constructed |-> TRUE, m_num_points_to_load |-> n,
        m_num_total_points |-> total, m_points_count |-> 0,
        m_load_ratio |-> <<n, Max(1, total)>>, m_calc_shift |-> calc_shift,
        m_shift_was_calc |-> FALSE, m_shift |-> 0, box_empty |-> box_empty,
        m_data |-> Columns(n), out_of_bounds |-> FALSE, read |-> 0,
        done |-> FALSE]
  /\ UNCHANGED <<las_ret, exceptLas>>

\* processOne(point): k is std::rand(), xyz the point, in_box whether
\* m_lonlat_box contains it
ProcessOne(k, xyz, in_box) ==
  LET l == las_loader
      called == [l EXCEPT !.read = @ + 1]
      shifted == IF l.m_calc_shift /\ ~l.m_shift_was_calc
                   THEN [called EXCEPT !.m_shift = xyz, !.m_shift_was_calc = TRUE]
                   ELSE called
      col == l.m_points_count
      Result(value) == [op |-> "processOne", value |-> value, count_before |-> col]
  IN  /\ l.constructed /\ ~l.done
      /\ las_ret.value
      /\ l.read < l.m_num_total_points
      /\ IF Full(l.m_points_count, l.m_num_points_to_load)
           THEN /\ las_loader' = called
                /\ las_ret' = Result(FALSE)
         ELSE IF AboveRatio(k, l.m_load_ratio)
           THEN /\ las_loader' = called
                /\ las_ret' = Result(TRUE)
         ELSE IF ~l.box_empty /\ ~in_box
           THEN /\ las_loader' = shifted
                /\ las_ret' = Result(TRUE)
         ELSE /\ las_loader' =
                   IF col \in DOMAIN l.m_data
                     THEN [shifted EXCEPT !.m_data[col] = [set |-> TRUE, value |-> xyz - shifted.m_shift],
                                          !.m_points_count = @ + 1]
                     ELSE [shifted EXCEPT !.out_of_bounds = TRUE,
                                          !.m_points_count = @ + 1]
              /\ las_ret' = Result(TRUE)
      /\ UNCHANGED exceptLas

\* done(table): the stream has ended
Done ==
  /\ las_loader.constructed /\ ~las_loader.done
  /\ ~las_ret.value \/ las_loader.read = las_loader.m_num_total_points
  /\ las_loader' =
       [las_loader EXCEPT
          !.m_data = [c \in 0 .. las_loader.m_points_count - 1 |->
                        IF c \in DOMAIN las_loader.m_data
                          THEN las_loader.m_data[c] ELSE Unset],
          !.done = TRUE]
  /\ UNCHANGED <<las_ret, exceptLas>>

NextLas ==
  \/ \E n \in 0 .. MaxLoad, total \in 0 .. MaxTotal,
        calc_shift \in BOOLEAN, box_empty \in BOOLEAN :
       ConstructLoader(n, total, calc_shift, box_empty)
  \/ \E k \in 0 .. RandMax, xyz \in LasPoints, in_box \in BOOLEAN :
       ProcessOne(k, xyz, in_box)
  \/ Done

SpecLas == InitLas /\ [][NextLas]_vars

\* ------------------------------------------------------------- MatchList
\* (GuiUtilities.cc)  Images and points are counted from 0 as in the code;
\* the tables are sequences, so image i is m_matches[i + 1].  An interest
\* point is its position <<x, y>>.
exceptMl == <<demVars, csmVars, plugVars, stVars, rpcVars, lasVars>>

Positions == {<<v * 10, v * 10>> : v \in 0 .. MaxPos - 1}
PointLists == UNION {[1 .. n -> Positions] : n \in 0 .. MaxPts}
NoPoints(num_images) == [i \in 1 .. num_images |-> <<>>]
Erase(s, k) == [n \in 1 .. Len(s) - 1 |-> IF n <= k THEN s[n] ELSE s[n + 1]]

\* a call: its first argument, its boolean argument if it has one (flag),
\* what it returned or that it threw, and the files it wrote
MlRet(op, arg, value) ==
  [op |-> op, arg |-> arg, flag |-> FALSE, value |-> value, threw |-> FALSE,
   wrote |-> {}]
MlThrew(op, arg) ==
  [op |-> op, arg |-> arg, flag |-> FALSE, value |-> FALSE, threw |-> TRUE,
   wrote |-> {}]

\* throwIfNoPoint(image, point) throws
NoPoint(image, point) ==
  image >= Len(m_matches) \/ point >= Len(m_matches[image + 1])

\* getNumPoints(image), image 0 by default
GetNumPoints(image) ==
  IF m_matches = <<>> THEN 0 ELSE Len(m_matches[image + 1])

\* the validity entries of a list of points that are all valid
ValidForNone(ip) == <<>>
ValidFor(ip) == [k \in 1 .. Len(ip) |-> TRUE]

\* addPoint's is_good
AddAlwaysGood(matches, image) == TRUE
IsGood(matches, image) ==
  LET curr_pts == Len(matches[image + 1])
  IN  /\ \A i \in 0 .. image - 1 : ~(Len(matches[i + 1]) < curr_pts + 1)
      /\ \A i \in image + 1 .. Len(matches) - 1 : ~(Len(matches[i + 1]) > curr_pts)

\* allPointsValid(), when it does not throw
AnyPointsValid(matches, valid) == TRUE
AllPointsValid(matches, valid) ==
  \A i \in 1 .. Len(matches) :
    /\ Len(matches[1]) = Len(matches[i])
    /\ \A j \in 1 .. Len(valid[i]) : valid[i][j]

\* fabs(dx) < ALLOWED_POS_DIFF and fabs(dy) < ALLOWED_POS_DIFF
SamePosition(a, b) == 2 * Abs(a[1] - b[1]) < 1 /\ 2 * Abs(a[2] - b[2]) < 1

\* loadPointsFromMatchFiles, the loop through the ip of the left image:
\* st is [m, v, num_ip], the tables and the number of ip
RECURSIVE MatchLoop(_, _, _, _, _, _, _)
MatchLoop(st, i, j, left, right, pnew, count) ==
  IF pnew >= Len(left) THEN st
  ELSE LET hits == {pold \in 0 .. st.num_ip - 1 :
                      SamePosition(left[pnew + 1], st.m[j + 1][pold + 1])}
       IN  IF hits = {}
             THEN IF count = st.num_ip THEN st
                  ELSE MatchLoop(st, i, j, left, right, pnew + 1, count)
             ELSE LET pold == CHOOSE p \in hits : \A q \in hits : p <= q
                      found == [st EXCEPT !.m[i + 1][pold + 1] = right[pnew + 1],
                                          !.v[i + 1][pold + 1] = TRUE]
                  IN  IF count + 1 = st.num_ip THEN found
                      ELSE MatchLoop(found, i, j, left, right, pnew + 1, count + 1)

\* loadPointsFromMatchFiles, the loop through the images from i on
RECURSIVE LoadLoop(_, _, _, _)
LoadLoop(st, i, matchFiles, leftIndices) ==
  IF i >= Len(matchFiles) + 1 THEN st
  ELSE LET file == matchFiles[i]
           j == leftIndices[i]
           blank == [st EXCEPT
                       !.m[i + 1] = [v \in 1 .. st.num_ip |-> <<(v - 1) * 10, (v - 1) * 10>>],
                       !.v[i + 1] = [v \in 1 .. st.num_ip |-> FALSE]]
       IN  IF ~file.ok THEN LoadLoop(blank, i + 1, matchFiles, leftIndices)
           ELSE IF i = 1
             THEN LoadLoop([blank EXCEPT !.m[1] = file.left,
                                         !.m[2] = file.right,
                                         !.v[1] = ValidFor(file.left),
                                         !.v[2] = ValidFor(file.right),
                                         !.num_ip = Len(file.left)],
                           i + 1, matchFiles, leftIndices)
             ELSE LoadLoop(MatchLoop(blank, i, j, file.left, file.right, 0, 0),
                           i + 1, matchFiles, leftIndices)

\* the files given to the loaders: one that cannot be read has ok = FALSE
VwipFiles ==
  {[ok |-> TRUE, ip |-> l] : l \in PointLists} \cup {[ok |-> FALSE, ip |-> <<>>]}
MatchFiles ==
  {[ok |-> TRUE, left |-> p[1], right |-> p[2]] :
     p \in {q \in PointLists \X PointLists : Len(q[1]) = Len(q[2])}}
    \cup {[ok |-> FALSE, left |-> <<>>, right |-> <<>>]}
\* leftIndices for n match files: image i is matched to an earlier image
LeftIndices(n) == {idx \in [1 .. n -> 0 .. MaxImages - 1] : \A i \in 1 .. n : idx[i] < i}

\* loadPointsFromVwip, the loop through the images from i on; read_binary_ip_file
\* throws on a file it cannot read
RECURSIVE VwipLoop(_, _, _)
VwipLoop(st, i, vwipFiles) ==
  IF i > Len(vwipFiles) THEN st
  ELSE IF ~vwipFiles[i].ok THEN [st EXCEPT !.threw = TRUE]
  ELSE VwipLoop([st EXCEPT !.m[i] = vwipFiles[i].ip,
                           !.v[i] = ValidFor(vwipFiles[i].ip)],
                i + 1, vwipFiles)

\* the match files savePointsToDisk writes for num_image_files images
SavedPairs(num_image_files) ==
  {p \in (0 .. num_image_files - 1) \X (0 .. num_image_files - 1) :
     /\ p[1] # p[2]
     /\ p[2] >= (IF num_image_files > 2 THEN 0 ELSE p[1] + 1)}

InitMatch ==
  /\ DemIdle
  /\ PlugIdle /\ StIdle /\ RpcIdle /\ LasIdle
  /\ MlIdle

\* resize(num_images)
Resize(num_images) ==
  /\ m_matches' = NoPoints(num_images)
  /\ m_valid_matches' = NoPoints(num_images)
  /\ ml_ret' = MlRet("resize", num_images, TRUE)
  /\ UNCHANGED exceptMl

\* addPoint(image, pt, valid)
AddPoint(image, pt, valid) ==
  /\ image < Len(m_matches) => Len(m_matches[image + 1]) < MaxPts
  /\ IF image >= Len(m_matches)
       THEN /\ ml_ret' = [MlRet("addPoint", image, FALSE) EXCEPT !.flag = valid]
            /\ UNCHANGED <<m_matches, m_valid_matches>>
     ELSE IF ~IsGood(m_matches, image)
       THEN /\ ml_ret' = [MlRet("addPoint", image, FALSE) EXCEPT !.flag = valid]
            /\ UNCHANGED <<m_matches, m_valid_matches>>
     ELSE /\ m_matches' = [m_matches EXCEPT ![image + 1] = Append(@, pt)]
          /\ m_valid_matches' = [m_valid_matches EXCEPT ![image + 1] = Append(@, TRUE)]
          /\ ml_ret' = [MlRet("addPoint", image, TRUE) EXCEPT !.flag = valid]
  /\ UNCHANGED exceptMl

\* setPointValid(image, point, newValue)
SetPointValid(image, point, newValue) ==
  /\ IF NoPoint(image, point)
       THEN /\ ml_ret' = MlThrew("setPointValid", image)
            /\ UNCHANGED m_valid_matches
       ELSE /\ point + 1 \in DOMAIN m_valid_matches[image + 1]
            /\ m_valid_matches' = [m_valid_matches EXCEPT ![image + 1][point + 1] = newValue]
            /\ ml_ret' = MlRet("setPointValid", image, TRUE)
  /\ UNCHANGED <<m_matches, exceptMl>>

\* setPointPosition(image, point, x, y)
SetPointPosition(image, point, pos) ==
  /\ IF NoPoint(image, point)
       THEN /\ ml_ret' = MlThrew("setPointPosition", image)
            /\ UNCHANGED m_matches
       ELSE /\ m_matches' = [m_matches EXCEPT ![image + 1][point + 1] = pos]
            /\ ml_ret' = MlRet("setPointPosition", image, TRUE)
  /\ UNCHANGED <<m_valid_matches, exceptMl>>

\* setIpValid(image)
SetIpValid(image) ==
  /\ IF image >= Len(m_matches)
       THEN UNCHANGED m_valid_matches
       ELSE m_valid_matches' =
              [m_valid_matches EXCEPT ![image + 1] = ValidFor(m_matches[image + 1])]
  /\ ml_ret' = MlRet("setIpValid", image, TRUE)
  /\ UNCHANGED <<m_matches, exceptMl>>

\* deletePointsForImage(image)
DeletePointsForImage(image) ==
  /\ IF image >= Len(m_matches)
       THEN /\ ml_ret' = MlThrew("deletePointsForImage", image)
            /\ UNCHANGED <<m_matches, m_valid_matches>>
       ELSE /\ m_matches' = Erase(m_matches, image)
            /\ m_valid_matches' = Erase(m_valid_matches, image)
            /\ ml_ret' = MlRet("deletePointsForImage", image, TRUE)
  /\ UNCHANGED exceptMl

\* deletePointAcrossImages(point)
DeletePointAcrossImages(point) ==
  /\ IF \/ point >= GetNumPoints(0)
        \/ \E i \in 1 .. Len(m_matches) : Len(m_matches[1]) # Len(m_matches[i])
       THEN /\ ml_ret' = MlRet("deletePointAcrossImages", point, FALSE)
            /\ UNCHANGED <<m_matches, m_valid_matches>>
       ELSE /\ \A i \in 1 .. Len(m_matches) : point + 1 \in DOMAIN m_valid_matches[i]
            /\ m_matches' = [i \in 1 .. Len(m_matches) |-> Erase(m_matches[i], point)]
            /\ m_valid_matches' =
                 [i \in 1 .. Len(m_matches) |-> Erase(m_valid_matches[i], point)]
            /\ ml_ret' = MlRet("deletePointAcrossImages", point, TRUE)
  /\ UNCHANGED exceptMl

\* loadPointsFromVwip(vwipFiles, imageNames), one vwip file per image name
LoadPointsFromVwip ==
  /\ IF GetNumPoints(0) > 0
       THEN /\ ml_ret' = MlRet("loadPointsFromVwip", 0, FALSE)
            /\ UNCHANGED <<m_matches, m_valid_matches>>
       ELSE \E num_images \in 0 .. MaxImages :
              \E vwipFiles \in [1 .. num_images -> VwipFiles] :
                \E st \in {VwipLoop([m |-> NoPoints(num_images),
                                     v |-> NoPoints(num_images),
                                     threw |-> FALSE], 1, vwipFiles)} :
                  /\ m_matches' = st.m
                  /\ m_valid_matches' = st.v
                  /\ ml_ret' = IF st.threw THEN MlThrew("loadPointsFromVwip", num_images)
                               ELSE MlRet("loadPointsFromVwip", num_images, TRUE)
  /\ UNCHANGED exceptMl

\* loadPointsFromMatchFiles(matchFiles, leftIndices)
LoadPointsFromMatchFiles ==
  /\ IF GetNumPoints(0) > 0
       THEN /\ ml_ret' = MlRet("loadPointsFromMatchFiles", 0, FALSE)
            /\ UNCHANGED <<m_matches, m_valid_matches>>
       ELSE \E n \in 0 .. MaxImages - 1, k \in 0 .. MaxImages - 1 :
              IF n = 0 \/ n # k
                THEN /\ ml_ret' = MlRet("loadPointsFromMatchFiles", n, FALSE)
                     /\ UNCHANGED <<m_matches, m_valid_matches>>
                ELSE \E matchFiles \in [1 .. n -> MatchFiles],
                        leftIndices \in LeftIndices(k) :
                       \E st \in {LoadLoop([m |-> NoPoints(n + 1), v |-> NoPoints(n + 1),
                                            num_ip |-> 0], 1, matchFiles, leftIndices)} :
                         /\ m_matches' = st.m
                         /\ m_valid_matches' = st.v
                         /\ ml_ret' = MlRet("loadPointsFromMatchFiles", n, TRUE)
  /\ UNCHANGED exceptMl

\* savePointsToDisk(prefix, imageNames, match_file): failed is the set of
\* match files write_binary_match_file cannot write
SavePointsToDisk(num_names) ==
  /\ IF Len(m_valid_matches) # Len(m_matches)
       THEN ml_ret' = MlThrew("savePointsToDisk", num_names)
     ELSE IF ~AllPointsValid(m_matches, m_valid_matches) \/ num_names # Len(m_matches)
       THEN ml_ret' = MlRet("savePointsToDisk", num_names, FALSE)
     ELSE \E failed \in SUBSET SavedPairs(num_names) :
            ml_ret' = [MlRet("savePointsToDisk", num_names, failed = {})
                         EXCEPT !.wrote = SavedPairs(num_names) \ failed]
  /\ UNCHANGED <<m_matches, m_valid_matches, exceptMl>>

\* resize and addPoint alone
NextMatchAdd ==
  \/ \E num_images \in 0 .. MaxImages : Resize(num_images)
  \/ \E image \in 0 .. MaxImages, pt \in Positions, valid \in BOOLEAN :
       AddPoint(image, pt, valid)

SpecMatchAdd == InitMatch /\ [][NextMatchAdd]_vars

NextMatch ==
  \/ \E num_images \in 0 .. MaxImages : Resize(num_images)
  \/ \E image \in 0 .. MaxImages, pt \in Positions, valid \in BOOLEAN :
       AddPoint(image, pt, valid)
  \/ \E image \in 0 .. MaxImages, point \in 0 .. MaxPts, newValue \in BOOLEAN :
       SetPointValid(image, point, newValue)
  \/ \E image \in 0 .. MaxImages, point \in 0 .. MaxPts, pos \in Positions :
       SetPointPosition(image, point, pos)
  \/ \E image \in 0 .. MaxImages : SetIpValid(image)
  \/ \E image \in 0 .. MaxImages : DeletePointsForImage(image)
  \/ \E point \in 0 .. MaxPts : DeletePointAcrossImages(point)
  \/ LoadPointsFromVwip
  \/ LoadPointsFromMatchFiles
  \/ \E num_names \in 0 .. MaxImages : SavePointsToDisk(num_names)

SpecMatch == InitMatch /\ [][NextMatch]_vars

\* ================================================================ claims
\* the pixels of the block the last call returned
Returned == IF ret.status = "returned" THEN DOMAIN ret.px ELSE {}
Running(w) == worker[w].state # "idle"
InTx(w) == worker[w].state \in {"in_reverse", "in_forward"}
IsisNames == {<<"i", "s", "i", "s">>,
              <<"i", "s", "i", "s", "m", "a", "p", "i", "s", "i", "s">>}

\* C1: with a Map2CamTrans transform under the block-parallel writer, no two
\* tile computations are at the same time inside reverse / forward of the
\* same transform object: concurrently running tiles use independent copies.
C1_IndependentCopies ==
  \A w1, w2 \in Workers :
    (w1 # w2 /\ writer = "block") =>
      /\ (tx_kind.left = "Map2CamTrans" /\ worker[w1].state = "in_reverse"
            /\ worker[w2].state = "in_reverse")
           => worker[w1].tx.left # worker[w2].tx.left
      /\ (tx_kind.right = "Map2CamTrans" /\ worker[w1].state = "in_forward"
            /\ worker[w2].state = "in_forward")
           => worker[w1].tx.right # worker[w2].tx.right

\* C2: a session whose name contains "isis" is written by the
\* single-threaded writer and at most one tile computation is in progress
\* at any time; every other session is written by the block-parallel writer.
C2_IsisSingleThreaded ==
  pc \notin {"start", "config_error"} =>
    IF session_name \in IsisNames
      THEN /\ writer = "single"
           /\ Cardinality({w \in Workers : Running(w)}) <= 1
      ELSE writer = "block"

C2_Witness ==
  /\ session_name \in IsisNames
  /\ pc = "write_disparity"
  /\ \E w \in Workers : InTx(w)
  /\ todo # {}

\* the right image, at full resolution: of the size of the left image
RightImageBox == Box(0, 0, SubFactor * ImgCols, SubFactor * ImgRows)

\* the scene, read off directly: does the left ray of a low-res pixel meet
\* valid DEM data, and does the point at distance t along the ray of a
\* pixel reproject into the right image
RayOf(p) == <<SubFactor * p[1] - LeftShift[1], SubFactor * p[2] - LeftShift[2]>>
LeftFails(p) == left_bad.kind # "none" /\ left_bad.pix = p
RayMeetsDem(p) ==
  \E t \in 0 .. CamH :
    LET d == <<DemX0 + RayOf(p)[1] + DemStep * t, DemY0 + RayOf(p)[2]>>
    IN /\ d[1] \in 0 .. DemCols - 1 /\ d[2] \in 0 .. DemRows - 1
       /\ \/ t = TGround /\ ~\E c \in hole_cols : RayOf(<<c, 0>>)[1] = RayOf(p)[1]
          \/ t = TBump /\ \E c \in bump_cols : RayOf(<<c, 0>>)[1] = RayOf(p)[1]
RawRight(p, t) == <<RayOf(p)[1] + right_cam.a[1] * t + right_cam.b[1],
                    RayOf(p)[2] + right_cam.a[2] * t + right_cam.b[2]>>
Reprojects(p, t) == /\ right_cam.tmin <= t /\ t <= right_cam.tmax
                    /\ RawRight(p, t)[1] >= 0
\* right low-res pixel minus left low-res pixel, in 1/SubFactor pixel
OffsetAt(p, t) == <<RawRight(p, t)[1] + RightShift[1] - SubFactor * p[1],
                    RawRight(p, t)[2] + RightShift[2] - SubFactor * p[2]>>
\* the distances along the ray of the three points of the bracket
Lo(px) == px.xyz.t - m_dem_error
Hi(px) == px.xyz.t + m_dem_error
Mid(px) == px.xyz.t

C4_SecondCallIdentical ==
  ret.status = "returned" =>
    LET again == Prerasterize(ret.bbox, disp_spread, ret)
    IN /\ again.status = "returned"
       /\ \A p \in BoxPixels(ret.bbox) :
            /\ again.px[p].valid = ret.px[p].valid
            /\ again.px[p].disp = ret.px[p].disp
            /\ again.spread[p] = disp_spread[p]

C4_Witness ==
  /\ ret.status = "returned"
  /\ \E p \in Returned : ret.px[p].valid /\ ret.px[p].guess # NoHint
  /\ \E p \in Pixels \ Returned : disp_spread[p].valid

\* C5: with pixel_sample = k > 1 a pixel of the disparity block or of the
\* spread raster is valid only if its column and its row are multiples of k.
C5_OnlyMultiplesValid ==
  m_pixel_sample > 1 =>
    /\ \A p \in Returned :
         ret.px[p].valid => p[1] % m_pixel_sample = 0 /\ p[2] % m_pixel_sample = 0
    /\ \A p \in Pixels :
         disp_spread[p].valid => p[1] % m_pixel_sample = 0 /\ p[2] % m_pixel_sample = 0

C5_Witness ==
  /\ m_pixel_sample > 1
  /\ \E p, q \in Returned :
       /\ ret.px[p].valid /\ disp_spread[p].valid
       /\ q[1] % m_pixel_sample # 0 /\ ~ret.px[q].valid /\ RayMeetsDem(q)


\* the bracket of a pixel, read off the scene: the offsets of the two
\* endpoints that reproject, and of the middle point when an endpoint
\* does not reproject and the middle point does
Bracket(p, px) ==
  {OffsetAt(p, t) : t \in {u \in {Lo(px), Hi(px)} : Reprojects(p, u)}} \cup
  (IF Reprojects(p, Lo(px)) /\ Reprojects(p, Hi(px)) THEN {}
   ELSE {OffsetAt(p, t) : t \in {u \in {Mid(px)} : Reprojects(p, u)}})
LeastOf(S) == CHOOSE x \in S : \A y \in S : x <= y
MostOf(S) == CHOOSE x \in S : \A y \in S : x >= y

\* C6 as stated: a pixel whose bracket has zero width is left invalid.
C6_DegenerateInvalid ==
  \A p \in Returned :
    (ret.px[p].hit /\ Cardinality(Bracket(p, ret.px[p])) = 1)
      => ~ret.px[p].valid /\ ~disp_spread[p].valid

\* C6, amended: a pixel with no successful reprojection, or whose bracket
\* is the single offset (0,0), is left invalid in both outputs; a bracket
\* of zero width at any other offset gives a valid disparity, that offset
\* rounded, with spread (0,0).
C6_OnlyZeroBoxInvalid ==
  \A p \in Returned :
    ret.px[p].hit =>
      LET B == Bracket(p, ret.px[p])
      IN /\ (B = {} \/ B = {<<0, 0>>}) => ~ret.px[p].valid /\ ~disp_spread[p].valid
         /\ (Cardinality(B) = 1 /\ B # {<<0, 0>>})
              => /\ ret.px[p].valid
                 /\ disp_spread[p] = [valid |-> TRUE, val |-> <<0, 0>>]

C6_Witness ==
  \E p \in Returned :
    /\ ret.px[p].hit /\ Cardinality(Bracket(p, ret.px[p])) = 1
    /\ ret.px[p].valid /\ ret.px[p].disp # <<0, 0>>
    /\ disp_spread[p] = [valid |-> TRUE, val |-> <<0, 0>>]

\* C7: after a successful intersection, an endpoint whose reprojection
\* fails is only left out of the bracket; the unperturbed point is
\* reprojected only when an endpoint failed; the pixel is invalid when all
\* three reprojections fail.
C7_BracketOnFailure ==
  \A p \in Returned :
    ret.px[p].hit =>
      LET px == ret.px[p]
      IN /\ px.offs = Bracket(p, px)
         /\ 2 \in px.tried <=> ~(Reprojects(p, Lo(px)) /\ Reprojects(p, Hi(px)))
         /\ (\A t \in {Lo(px), Hi(px), Mid(px)} : ~Reprojects(p, t))
              => ~px.valid /\ ~disp_spread[p].valid

C7_Witness ==
  /\ m_dem_error > 0
  /\ \E p, q \in Returned :
       /\ ret.px[p].valid
       /\ Reprojects(p, Lo(ret.px[p])) /\ ~Reprojects(p, Hi(ret.px[p]))
       /\ Reprojects(p, Mid(ret.px[p]))
       /\ ret.px[q].hit /\ ~ret.px[q].valid
       /\ \A t \in {Lo(ret.px[q]), Hi(ret.px[q]), Mid(ret.px[q])} : ~Reprojects(q, t)

\* C8: a valid disparity is the rounded midpoint of the bracket, and the
\* spread is half the width of the bracket, rounded up, in each component.
C8_MidpointAndHalfWidth ==
  \A p \in Returned :
    ret.px[p].valid =>
      LET B == Bracket(p, ret.px[p])
      IN /\ B # {}
         /\ disp_spread[p].valid
         /\ \A i \in 1 .. 2 :
              LET mn == LeastOf({o[i] : o \in B})
                  mx == MostOf({o[i] : o \in B})
                  d  == ret.px[p].disp[i]
                  sp == disp_spread[p].val[i]
              IN /\ Abs(2 * SubFactor * d - (mn + mx)) <= SubFactor
                 /\ 2 * SubFactor * sp >= mx - mn
                 /\ 2 * SubFactor * (sp - 1) < mx - mn

C8_Witness ==
  \E p \in Returned :
    /\ ret.px[p].valid
    /\ LET B  == Bracket(p, ret.px[p])
           mn == LeastOf({o[1] : o \in B})
           mx == MostOf({o[1] : o \in B})
       IN /\ (mx - mn) % (2 * SubFactor) # 0
          /\ (mx + mn) % (2 * SubFactor) # 0
          /\ mx + mn < 0

\* C9: after prerasterize(bbox) returns, a pixel of bbox is valid in the
\* disparity iff it is valid in the spread; a pixel skipped by sampling,
\* or whose intersection or reprojections failed, is invalid in both.
C9_ValidityAgrees ==
  \A p \in Returned :
    /\ ret.px[p].valid <=> disp_spread[p].valid
    /\ (\/ p[1] % m_pixel_sample # 0 \/ p[2] % m_pixel_sample # 0
        \/ LeftFails(p) \/ ~RayMeetsDem(p)
        \/ \A t \in 0 .. CamH + MaxDemError : ~Reprojects(p, t))
         => ~ret.px[p].valid /\ ~disp_spread[p].valid

C9_Witness ==
  \E p, q \in Returned :
    /\ ret.px[p].valid /\ disp_spread[p].valid
    /\ ~ret.px[q].valid /\ ~disp_spread[q].valid
    /\ q[1] % m_pixel_sample = 0 /\ q[2] % m_pixel_sample = 0
    /\ LeftFails(q)

\* C10: prerasterize never raises an error for a per-pixel geometric
\* failure (here: as long as the DEM box does not stay empty).
C10_NeverRaises ==
  ~empty_crop_throws => ret.status # "threw"

\* the pass has computed no tile and started none
NoTileWork ==
  /\ ret = NoCall
  /\ disp_spread = NewSpread
  /\ todo = {}
  /\ \A w \in Workers : ~Running(w)

\* C11 as stated: produce_dem_disparity aborts, and computes no tile, for
\* every DEM error tolerance <= 0, 0 included.
C11_AbortsNonPositive ==
  dem_error <= 0 => pc \in {"start", "config_error"} /\ NoTileWork

\* C11, amended: produce_dem_disparity aborts, and computes no tile, for
\* every negative DEM error tolerance; a tolerance of 0 is accepted.
C11_AbortsNegative ==
  /\ dem_error < 0 => pc \in {"start", "config_error"} /\ NoTileWork
  /\ (dem_error = 0 /\ dem_file # "" /\ has_georef) => pc # "config_error"

C11_Witness ==
  /\ dem_error < 0 /\ dem_file # "" /\ has_georef
  /\ pc = "config_error"

\* C12: with an empty DEM file name, a rejected (negative) tolerance or a
\* DEM without georeference, the only step of produce_dem_disparity is the
\* fatal error: no tile is computed, no output file is opened and
\* opt.raster_tile_size keeps the caller's value.
C12_FatalBeforeAnyWork ==
  [][(dem_file = "" \/ dem_error < 0 \/ ~has_georef)
       => /\ pc' = "config_error"
          /\ ret' = NoCall /\ disp_spread' = NewSpread /\ todo' = {}
          /\ files' = {}
          /\ raster_tile_size' = raster_tile_size]_vars

C12_Witness ==
  /\ ~has_georef /\ dem_file # "" /\ dem_error >= 0
  /\ pc = "config_error"
  /\ raster_tile_size # TileSize
  /\ files = {}

\* a pixel the stride samples, whose left ray is computed and meets valid
\* DEM data, and every point of whose ray reprojects to a non-zero offset
OnStride(p) == p[1] % m_pixel_sample = 0 /\ p[2] % m_pixel_sample = 0
Computable(p) ==
  /\ OnStride(p) /\ ~LeftFails(p) /\ RayMeetsDem(p)
  /\ \A t \in 0 .. CamH + MaxDemError : Reprojects(p, t) /\ OffsetAt(p, t) # <<0, 0>>

\* C13: a pixel whose left ray meets no valid DEM data (outside the DEM, or
\* a no-data hole) has an invalid disparity, and it does not change the
\* validity of a pixel of the tile whose ray does meet valid data (here: on
\* terrain without ridge, where all rays that meet the DEM meet it within a
\* few DEM pixels of each other).
C13_NoHitInvalidOthersUnaffected ==
  \A p \in Returned :
    /\ ~RayMeetsDem(p) => ~ret.px[p].valid
    /\ (bump_cols = {} /\ Computable(p)) => ret.px[p].valid

\* the intersection of the ray of a sampled pixel with the whole DEM
FullDemHit(p, px) == CameraPixelToDemXyz(RayOf(p), DemBounds, px.guess)

\* C14: the DEM crop of a tile contains the DEM pixel hit by the ray of
\* every sampled pixel of the tile, so no pixel that intersects the whole
\* DEM fails because its hit point is outside the crop.
C14_CropCoversEveryHit ==
  \A p \in Returned :
    (ret.px[p].sampled /\ ~LeftFails(p) /\ FullDemHit(p, ret.px[p]).has_intersection)
      => /\ InBox(ret.dem_box, DemPixel(FullDemHit(p, ret.px[p]).xyz))
         /\ ret.px[p].hit

\* C15: the region prerasterize reads from the DEM is, for every tile,
\* inside the bounding box of the DEM, also when no diagonal sample
\* intersects the DEM.
C15_ReadsInsideDem ==
  ret.status # "none" =>
    IF IsEmptyBox(ret.dem_box)
      THEN ~empty_crop_throws
      ELSE /\ 0 <= ret.dem_box.minx /\ ret.dem_box.maxx <= DemCols
           /\ 0 <= ret.dem_box.miny /\ ret.dem_box.maxy <= DemRows

\* C16: a tile computation changes no member of the view and writes the
\* spread raster only inside its bbox; the tiles still in progress have
\* bboxes disjoint from it, so no two of them write the same cell.
C16_WritesOnlyOwnCells ==
  [][(ret' # ret \/ disp_spread' # disp_spread) =>
       /\ sceneVars' = sceneVars /\ m_tx' = m_tx
       /\ \A p \in Pixels \ BoxPixels(ret'.bbox) : disp_spread'[p] = disp_spread[p]
       /\ \A w \in Workers :
            worker'[w].state # "idle"
              => BoxPixels(worker'[w].bbox) \cap BoxPixels(ret'.bbox) = {}]_vars

C16_Witness ==
  /\ writer = "block"
  /\ ret.status = "returned"
  /\ \E p \in Returned : disp_spread[p].valid
  /\ \E w \in Workers : Running(w) /\ worker[w].bbox # ret.bbox

\* C17 as stated: during a pass no cell of the disparity or of the spread
\* raster is written by two tile computations, nor twice by one.
C17_CellsWrittenOnce ==
  /\ \A p \in Pixels : written[p] <= 1
  /\ \A p \in Returned : ret.px[p].writes <= 1

\* C17, amended: no cell is written by two tile computations; the one
\* computation that owns a cell invalidates it and then, when the pixel
\* gets a valid disparity, assigns it once.
C17_OneTilePerCell ==
  /\ \A p \in Pixels : written[p] <= 1
  /\ \A p \in Returned : ret.px[p].writes = IF ret.px[p].valid THEN 2 ELSE 1

C17_Witness ==
  /\ pc = "write_spread"
  /\ \A p \in Pixels : written[p] = 1
  /\ \E p \in Returned : ret.px[p].valid /\ ret.px[p].writes = 2

\* C18: a valid spread has both components >= 0, whichever reprojections
\* of the bracket succeeded.
C18_SpreadNonNegative ==
  /\ \A p \in Pixels :
       disp_spread[p].valid => disp_spread[p].val[1] >= 0 /\ disp_spread[p].val[2] >= 0
  /\ \A p \in Returned :
       ret.px[p].valid => ret.px[p].spread[1] >= 0 /\ ret.px[p].spread[2] >= 0

C18_Witness ==
  \E p \in Returned :
    /\ disp_spread[p].valid /\ disp_spread[p].val[1] > 0
    /\ 2 \in ret.px[p].succ
    /\ ret.px[p].range.minx < 0

\* C19: for a fixed scene and pixel and tolerances e1 <= e2, when the spread
\* is valid for both, spread(e1) <= spread(e2) in each component.
C19_SpreadMonotone ==
  \A p \in Returned :
    ret.px[p].hit =>
      \A e1, e2 \in 0 .. MaxDemError :
        LET b1 == PixelBracket(p, ret.px[p].xyz, ret.px[p].guess, e1)
            b2 == PixelBracket(p, ret.px[p].xyz, ret.px[p].guess, e2)
        IN (e1 <= e2 /\ b1.valid /\ b2.valid)
             => b1.spread[1] <= b2.spread[1] /\ b1.spread[2] <= b2.spread[2]

\* C20: point_to_pixel returns a pixel only when the ground-to-image solve
\* reached the desired precision and gave no warning; otherwise it raises.
C20_FailureSignalled ==
  csm_ret.status = "returned" =>
    csm_ret.achieved <= m_desired_precision /\ ~csm_ret.warned

\* the hint a sampled pixel of the returned block should get: the
\* intersection point of the nearest sampled pixel to its left in its row
\* whose intersection succeeded, none when there is no such pixel
RowHint(p) ==
  LET before == {q \in Returned : q[2] = p[2] /\ q[1] < p[1] /\ ret.px[q].hit}
      last   == CHOOSE q \in before : \A r \in before : r[1] <= q[1]
  IN IF before = {} THEN NoHint ELSE ret.px[last].xyz

\* C21: in the per-pixel pass the hint is cleared at the start of each
\* sampled row, and a later sampled pixel of the row gets the intersection
\* point of the most recent pixel of the row whose intersection succeeded;
\* no hint of another row, tile or of the diagonal pass is used.
C21_HintFromSameRow ==
  \A p \in Returned : ret.px[p].sampled => ret.px[p].guess = RowHint(p)

C21_Witness ==
  \E p, q, r \in Returned :
    /\ ret.px[p].hit /\ ret.px[p].guess # NoHint /\ ret.px[p].guess # ret.px[p].xyz
    /\ q[2] = p[2] /\ q[1] < p[1] /\ ret.px[q].sampled /\ ~ret.px[q].hit
    /\ r[2] > p[2] /\ ret.px[r].sampled /\ ret.px[r].guess = NoHint

\* C26: the spread file is started only when the write of the disparity
\* file is complete: every tile is computed, so every spread cell has been
\* written by the computation of its tile.
C26_SpreadAfterDisparity ==
  SpreadFile \in files =>
    /\ DisparityFile \in files
    /\ todo = {}
    /\ \A w \in Workers : ~Running(w)
    /\ \A p \in Pixels : written[p] = 1

C26_Witness ==
  /\ SpreadFile \in files
  /\ writer = "block"
  /\ pc = "done"
  /\ \E p \in Pixels : disp_spread[p].valid

\* C27: the validity and the value of the disparity and of the spread at a
\* pixel do not depend on the tile: any other bbox that contains the pixel
\* gives the same.
C27_TileIndependent ==
  ret.status = "returned" =>
    \A bbox \in BBoxes :
      LET other == Prerasterize(bbox, disp_spread, ret)
      IN other.status = "returned" =>
           \A p \in Returned \cap BoxPixels(bbox) :
             /\ other.px[p].valid = ret.px[p].valid
             /\ other.px[p].disp = ret.px[p].disp
             /\ other.px[p].spread = ret.px[p].spread

\* C22: the body of initialize_plugins runs under mutual exclusion, and the
\* plugin library is loaded at most once in the process: a call that finds
\* the plugin list non-empty loads nothing.
C22_LoadedOnce ==
  /\ lib_loads <= 1
  /\ Cardinality({t \in InitThreads : init_pc[t] # "out"}) <= 1
  /\ \A t \in InitThreads : init_pc[t] # "out" => csm_init_mutex = t
  /\ lib_loads = 1 => plugins # {}

C22_Witness ==
  /\ lib_loads = 1
  /\ \A t \in InitThreads : init_calls[t] = MaxCalls /\ init_pc[t] = "out"

\* both denominators have first coefficient 1
DenStartsWithOne(v) == v.lineDen[1] = 1 /\ v.sampDen[1] = 1
\* C25: packCoeffs and unpackCoeffs are inverse to each other: packing the
\* four vectors unpackCoeffs made of a 78-element C gives C again, and
\* unpacking the vector packCoeffs made of four vectors whose denominators
\* begin with 1 gives the four vectors again.
C25_PackUnpackInverse ==
  /\ rpc_ret = "unpacked" => PackCoeffs(rpc_vecs) = rpc_C
  /\ (rpc_ret = "packed" /\ DenStartsWithOne(rpc_vecs))
       => /\ Len(rpc_C) = PackedLen
          /\ UnpackCoeffs(rpc_C) = rpc_vecs
C25_Witness ==
  /\ rpc_ret = "packed"
  /\ DenStartsWithOne(rpc_vecs)
  /\ rpc_vecs.lineDen[NumCoeffs] # rpc_vecs.sampDen[NumCoeffs]
  /\ rpc_vecs.lineNum[1] # 1

\* the sensor model type that goes with a model name
NameType(name) ==
  IF name = FrameName THEN "Frame"
  ELSE IF name = LsName THEN "Ls"
  ELSE IF name = PushFrameName THEN "PushFrame"
  ELSE IF name = SarName THEN "Sar"
  ELSE "none"
\* C29: every file load_model classifies as a model state is accepted by the
\* dispatch of setModelFromStateString: the state string starts with the
\* model name that is the file's first token, the matching sensor model type
\* is constructed, and the 'Could not create CSM model' error is not raised.
C29_StateFilesAccepted ==
  st_ret.is_model_state =>
    /\ st_ret.status # "could_not_create"
    /\ StartsWith(st_file, FirstToken(st_file))
    /\ st_ret.type = NameType(FirstToken(st_file))

\* the columns of m_data that hold a stored point
StoredColumns == {c \in DOMAIN las_loader.m_data : las_loader.m_data[c].set}
\* C30: LasLoader stores at most num_points_to_load points: the count of
\* stored points never exceeds num_points_to_load, every stored point is
\* written at a column below the allocated column count, a processOne call
\* returns false (stop) exactly when the count had been reached, and after
\* done() the data matrix has as many columns as points were stored.
C30_StoresAtMostRequested ==
  las_loader.constructed =>
    /\ las_loader.m_points_count <= las_loader.m_num_points_to_load
    /\ ~las_loader.out_of_bounds
    /\ StoredColumns = 0 .. las_loader.m_points_count - 1
    /\ las_ret.op = "processOne" =>
         (las_ret.value <=> las_ret.count_before < las_loader.m_num_points_to_load)
    /\ las_loader.done => DOMAIN las_loader.m_data = 0 .. las_loader.m_points_count - 1
C30_Witness ==
  /\ las_loader.done
  /\ las_loader.m_points_count = las_loader.m_num_points_to_load
  /\ las_loader.m_points_count >= 2
  /\ las_ret.op = "processOne" /\ ~las_ret.value

\* the point counts are non-increasing in the image index
NonIncreasing(matches) ==
  \A i \in 1 .. Len(matches) - 1 : Len(matches[i]) >= Len(matches[i + 1])
\* addPoint(image, ...) on matches names no image or would break the order
Unacceptable(matches, image) ==
  \/ image >= Len(matches)
  \/ ~NonIncreasing([matches EXCEPT ![image + 1] = Append(@, <<0, 0>>)])
\* C23: after any sequence of resize and addPoint calls the point counts are
\* non-increasing in the image index, and an addPoint that would break this
\* or that names a non-existent image returns false and changes nothing.
C23_CountsNonIncreasing ==
  [][/\ NonIncreasing(m_matches')
     /\ (ml_ret'.op = "addPoint" /\ Unacceptable(m_matches, ml_ret'.arg))
          => /\ ~ml_ret'.value
             /\ m_matches' = m_matches
             /\ m_valid_matches' = m_valid_matches]_vars
C23_Witness ==
  /\ ml_ret.op = "addPoint" /\ ~ml_ret.value
  /\ ml_ret.arg = 1
  /\ Len(m_matches) = MaxImages
  /\ Len(m_matches[1]) = 1 /\ Len(m_matches[2]) = 1

\* C24: savePointsToDisk writes no match file and returns false unless every
\* image has the same number of points, every point is marked valid and the
\* number of image names equals the number of images.
C24_SaveOnlyComplete ==
  (ml_ret.op = "savePointsToDisk" /\ (ml_ret.value \/ ml_ret.wrote # {})) =>
    /\ \A i \in 1 .. Len(m_matches) : Len(m_matches[i]) = Len(m_matches[1])
    /\ \A i \in 1 .. Len(m_matches) :
         \A j \in 1 .. Len(m_matches[i]) : m_valid_matches[i][j]
    /\ ml_ret.arg = Len(m_matches)
C24_Witness ==
  /\ ml_ret.op = "savePointsToDisk" /\ ~ml_ret.value /\ ml_ret.wrote = {}
  /\ ml_ret.arg = Len(m_matches) /\ Len(m_matches) = MaxImages
  /\ \A i \in 1 .. Len(m_matches) : Len(m_matches[i]) = MaxPts
  /\ \E i \in 1 .. Len(m_matches) : ~m_valid_matches[i][1]

\* C28: after any sequence of MatchList operations the validity table has
\* the same number of images as the point table and, for every image, the
\* same number of entries, so that allPointsValid does not raise its 'out
\* of sync' error and isPointValid does not read past the validity list.
C28_ValidityInStep ==
  /\ Len(m_valid_matches) = Len(m_matches)
  /\ \A i \in 1 .. Len(m_matches) : Len(m_valid_matches[i]) = Len(m_matches[i])
  /\ ~(ml_ret.op = "savePointsToDisk" /\ ml_ret.threw)
C28_Witness ==
  /\ ml_ret.op = "deletePointAcrossImages" /\ ml_ret.value
  /\ Len(m_matches) = MaxImages
  /\ Len(m_matches[MaxImages]) = 1
  /\ ~m_valid_matches[MaxImages][1]

====
